---- MODULE Spec2Model ----
(***************************************************************************)
(* Model of BG3StreamlitDashboard.py: the damage ledger (DamageInfo), the  *)
(* aggregation of parsed log lines (process_damage_data), the report       *)
(* (format_damage_output), the chart rows (create_dashboard) and the       *)
(* driver (main).                                                          *)
(*                                                                         *)
(* Numbers.  Percentages are kept in hundredths of a percent, which is     *)
(* what the report prints with the :.2f format.  Quartiles and fences are  *)
(* kept in eighths of a damage point: with linear interpolation at the     *)
(* 25th/50th/75th percentile a quartile is a multiple of 1/4 and a fence   *)
(* (quartile +- 1.5 * IQR) a multiple of 1/8, and these binary fractions   *)
(* are exact in the program's floating point.                              *)
(***************************************************************************)
EXTENDS Integers, Sequences, FiniteSets, TLC

\* ------------------------------------------------------------------ bounds
MaxFiles == 2
MaxLines == 2
MaxDamage == 1
MaxAllow == 2

Names == {"A", "B", "C"}
Types == {"", "Fire"}
Damages == 0..MaxDamage
FileNames == {"log1", "log2"}

VARIABLES
    pc,             \* position of main()
    uploaded_files, \* st.file_uploader: sequence of [name, lines]
    player_names,   \* st.text_input, already split at the commas
    use_allowlist,  \* st.checkbox
    damage_data,    \* defaultdict(DamageInfo): [keys (insertion order), info]
    fi, li,         \* loop position of process_damage_data: file, line
    allowlist,      \* main's allowlist: [isNone, names]
    warnings,       \* st.warning calls made so far
    output,         \* the report handed to st.markdown
    df,             \* rows built by create_dashboard
    debug_message,  \* the diagnostic line printed by main
    exception,      \* the exception that ended main, "" if none
    reordered,      \* a reordering of uploaded_files
    damage_data2    \* the ledger set of the reordering

vars == <<pc, uploaded_files, player_names, use_allowlist, damage_data, fi, li,
          allowlist, warnings, output, df, debug_message, exception,
          reordered, damage_data2>>

\* ------------------------------------------------------------- input lines
\* A log line after pattern.search and match.groups(): match is FALSE for a
\* line the pattern does not match.
JunkLine == [match |-> FALSE, defender |-> "", attacker |-> "", type |-> "", damage |-> 0]

DamageLines == [match : {TRUE}, defender : Names, attacker : Names,
                type : Types, damage : Damages]

Lines == DamageLines \cup {JunkLine}

\* ------------------------------------------------------------ small helpers
RECURSIVE SumSeq(_)
SumSeq(s) == IF s = <<>> THEN 0 ELSE Head(s) + SumSeq(Tail(s))

RECURSIVE SumDict(_)
SumDict(d) ==
    IF DOMAIN d = {} THEN 0
    ELSE LET k == CHOOSE x \in DOMAIN d : TRUE
         IN d[k] + SumDict([x \in DOMAIN d \ {k} |-> d[x]])

Range(s) == {s[i] : i \in DOMAIN s}

\* ------------------------------------------------------------- DamageInfo
EmptyDict == [t \in {} |-> 0]

\* defaultdict(int): d[k] += v
DictAdd(d, k, v) ==
    [x \in DOMAIN d \cup {k} |-> IF x = k THEN (IF k \in DOMAIN d THEN d[k] ELSE 0) + v
                                 ELSE d[x]]

DamageInfo ==
    [total_damage_inflicted |-> 0, damage_inflicted_by_type |-> EmptyDict,
     total_damage_received |-> 0, damage_received_by_type |-> EmptyDict]

InflictedTypeOnly(info, damage, damage_type) ==
    [info EXCEPT !.damage_inflicted_by_type = DictAdd(@, damage_type, damage)]

add_damage_inflicted(info, damage, damage_type) ==
    [info EXCEPT !.total_damage_inflicted = @ + damage,
                 !.damage_inflicted_by_type = DictAdd(@, damage_type, damage)]

ReceivedOverwrite(info, damage, damage_type) ==
    [info EXCEPT !.total_damage_received = damage,
                 !.damage_received_by_type =
                     [x \in DOMAIN @ \cup {damage_type} |->
                         IF x = damage_type THEN damage ELSE @[x]]]

add_damage_received(info, damage, damage_type) ==
    [info EXCEPT !.total_damage_received = @ + damage,
                 !.damage_received_by_type = DictAdd(@, damage_type, damage)]

total_damage(info) == info.total_damage_inflicted + info.total_damage_received

\* ---------------------------------------------- defaultdict(DamageInfo)
EmptyData == [keys |-> <<>>, info |-> [c \in {} |-> DamageInfo]]

\* damage_info[k]: __missing__ creates the ledger on first reference.
GetItem(dd, k) ==
    IF k \in DOMAIN dd.info THEN dd
    ELSE [keys |-> Append(dd.keys, k),
          info |-> [c \in DOMAIN dd.info \cup {k} |->
                       IF c = k THEN DamageInfo ELSE dd.info[c]]]

DictContainsByIndex(dd, k) == [found |-> k \in DOMAIN dd.info, dict |-> GetItem(dd, k)]

\* k in damage_data: __contains__ never calls __missing__.
DictContains(dd, k) == [found |-> k \in DOMAIN dd.info, dict |-> dd]

\* ---------------------------------------------------- process_damage_data
\* The body of the inner loop for one line.
ProcessLine(dd, line) ==
    IF ~line.match THEN dd
    ELSE LET d1 == GetItem(dd, line.attacker)
             d2 == [d1 EXCEPT !.info[line.attacker] =
                        add_damage_inflicted(@, line.damage, line.type)]
             d3 == GetItem(d2, line.defender)
         IN [d3 EXCEPT !.info[line.defender] =
                        add_damage_received(@, line.damage, line.type)]

RECURSIVE ProcessLines(_, _)
ProcessLines(dd, lines) ==
    IF lines = <<>> THEN dd
    ELSE ProcessLines(ProcessLine(dd, Head(lines)), Tail(lines))

RECURSIVE ProcessFiles(_, _)
ProcessFiles(dd, files) ==
    IF files = <<>> THEN dd
    ELSE ProcessFiles(ProcessLines(dd, Head(files).lines), Tail(files))

process_damage_data(files) == ProcessFiles(EmptyData, files)

\* ------------------------------------------------------------- statistics
\* An allowlist as main holds it: None, or a list of names.
NoneList == [isNone |-> TRUE, names |-> <<>>]
SomeList(names) == [isNone |-> FALSE, names |-> names]

\* Truth value of "allowlist" in a condition: None and [] are both false.
Truthy(al) == ~al.isNone /\ al.names # <<>>

\* {char: data for char, data in damage_data.items() if char in allowlist},
\* as the sequence of its keys in damage_data's insertion order.
FilterKeys(dd, names) ==
    LET InList(c) == c \in Range(names) IN SelectSeq(dd.keys, InList)

filtered_damage_data(dd, use, al) ==
    IF use /\ Truthy(al) THEN FilterKeys(dd, al.names) ELSE dd.keys

CountAll(dd, use, al) == Len(dd.keys)

num_characters(dd, use, al) ==
    IF use /\ Truthy(al) THEN Len(al.names) ELSE Len(dd.keys)

\* Python's round-half-even of num/den (den > 0) to an integer: the :.2f
\* format applied to a value given in hundredths.
RoundHalfEven(num, den) ==
    LET q == num \div den
        r == num - q * den
    IN IF 2 * r < den THEN q
       ELSE IF 2 * r > den THEN q + 1
       ELSE IF q % 2 = 0 THEN q ELSE q + 1

\* 100 / num_characters if num_characters > 0 else 0, in hundredths.
target_percentage_per_character(n) == IF n > 0 THEN RoundHalfEven(10000, n) ELSE 0

\* (part / whole * 100) if whole > 0 else 0, in hundredths.
Percent(part, whole) == IF whole > 0 THEN RoundHalfEven(10000 * part, whole) ELSE 0

\* percent_of_total - target_percentage_per_character, in hundredths.
Offset(part, whole, n) ==
    LET pn == IF whole > 0 THEN 100 * part ELSE 0
        pd == IF whole > 0 THEN whole ELSE 1
        tn == IF n > 0 THEN 100 ELSE 0
        td == IF n > 0 THEN n ELSE 1
    IN RoundHalfEven(100 * (pn * td - tn * pd), pd * td)

RECURSIVE InsertAsc(_, _)
InsertAsc(s, v) ==
    IF s = <<>> THEN <<v>>
    ELSE IF v < Head(s) THEN <<v>> \o s
    ELSE <<Head(s)>> \o InsertAsc(Tail(s), v)

RECURSIVE SortAsc(_)
SortAsc(s) == IF s = <<>> THEN <<>> ELSE InsertAsc(SortAsc(Tail(s)), Head(s))

\* np.percentile(values, p) for p in {25, 50, 75}, default linear
\* interpolation, for a non-empty list: the result in eighths.
Percentile(values, p) ==
    LET s == SortAsc(values)
        m == (Len(s) - 1) * (p \div 25)     \* four times the virtual index
        lo == m \div 4
        fr == m % 4
    IN IF fr = 0 THEN 8 * s[lo + 1]
       ELSE 8 * s[lo + 1] + 2 * fr * (s[lo + 2] - s[lo + 1])

\* The locals of format_damage_output from the three value lists on, for a
\* non-empty population; every value in eighths.
Stats(dd, keys) ==
    LET total_damages == [i \in DOMAIN keys |-> total_damage(dd.info[keys[i]])]
        inflicted_damages == [i \in DOMAIN keys |-> dd.info[keys[i]].total_damage_inflicted]
        received_damages == [i \in DOMAIN keys |-> dd.info[keys[i]].total_damage_received]
        q1i == Percentile(inflicted_damages, 25)
        q3i == Percentile(inflicted_damages, 75)
        q1r == Percentile(received_damages, 25)
        q3r == Percentile(received_damages, 75)
    IN [q1_total |-> Percentile(total_damages, 25),
        median_total |-> Percentile(total_damages, 50),
        q3_total |-> Percentile(total_damages, 75),
        q1_inflicted |-> q1i, q3_inflicted |-> q3i,
        iqr_inflicted |-> q3i - q1i,
        upper_fence_inflicted |-> q3i + (3 * (q3i - q1i)) \div 2,
        lower_fence_inflicted |-> q1i - (3 * (q3i - q1i)) \div 2,
        q1_received |-> q1r, q3_received |-> q3r,
        iqr_received |-> q3r - q1r,
        upper_fence_received |-> q3r + (3 * (q3r - q1r)) \div 2,
        lower_fence_received |-> q1r - (3 * (q3r - q1r)) \div 2]

ClassifyInclusive(damage, q1, q3, upper_fence, lower_fence) ==
    IF damage >= upper_fence THEN "Outlier"
    ELSE IF damage >= q3 THEN "Excellent"
    ELSE IF damage >= q1 THEN "Good"
    ELSE IF damage < lower_fence THEN "Outlier"
    ELSE "Low"

classify_performance(damage, q1, q3, upper_fence, lower_fence) ==
    IF damage > upper_fence THEN "Outlier"
    ELSE IF damage > q3 THEN "Excellent"
    ELSE IF damage >= q1 THEN "Good"
    ELSE IF damage < lower_fence THEN "Outlier"
    ELSE "Low"

OverallTierInclusive(total, q1_total, q3_total) ==
    IF total <= q1_total THEN "Low"
    ELSE IF total >= q3_total THEN "Excellent"
    ELSE "Good"

\* The if/elif/else on data.total_damage in the Performance Categories loop.
OverallTier(total, q1_total, q3_total) ==
    IF total < q1_total THEN "Low"
    ELSE IF total > q3_total THEN "Excellent"
    ELSE "Good"

\* ------------------------------------------------------------- the report
\* sorted(..., key=total_damage_inflicted, reverse=True): stable, so equal
\* keys keep their order in the input.
RECURSIVE InsertDesc(_, _, _)
InsertDesc(s, c, info) ==
    IF s = <<>> THEN <<c>>
    ELSE IF info[Head(s)].total_damage_inflicted < info[c].total_damage_inflicted
         THEN <<c>> \o s
    ELSE <<Head(s)>> \o InsertDesc(Tail(s), c, info)

RECURSIVE StableDesc(_, _)
StableDesc(keys, info) ==
    IF keys = <<>> THEN <<>>
    ELSE InsertDesc(StableDesc(SubSeq(keys, 1, Len(keys) - 1), info), keys[Len(keys)], info)

Reverse(s) == [i \in DOMAIN s |-> s[Len(s) + 1 - i]]

\* An ascending stable sort read backwards: equal keys come out reversed.
AscendingReversed(keys, info) == Reverse(StableDesc(Reverse(keys), info))

sorted_characters(keys, info) == StableDesc(keys, info)

NoOutput ==
    [produced |-> FALSE, target |-> 0, total_all |-> 0, party |-> <<>>,
     blocks |-> <<>>, perf_header |-> FALSE, perf |-> <<>>]

TotalInflicted(dd, keys) ==
    SumSeq([i \in DOMAIN keys |-> dd.info[keys[i]].total_damage_inflicted])

\* format_damage_output when np.percentile returns (for an empty population
\* the quartiles are then NaN and no character is classified).
format_damage_output(dd, use, al) ==
    LET total_all == TotalInflicted(dd, dd.keys)
        keys == filtered_damage_data(dd, use, al)
        total_allowlist == IF use /\ Truthy(al) THEN TotalInflicted(dd, keys) ELSE total_all
        n == num_characters(dd, use, al)
        denom == IF use THEN total_allowlist ELSE total_all
        sorted == sorted_characters(keys, dd.info)
        st == Stats(dd, keys)
    IN [produced |-> TRUE,
        target |-> target_percentage_per_character(n),
        total_all |-> total_all,
        party |-> IF use
                  THEN <<[allowlist_total |-> total_allowlist,
                          allowlist_percent |-> Percent(total_allowlist, total_all),
                          non_party_total |-> total_all - total_allowlist,
                          non_party_percent |-> Percent(total_all - total_allowlist, total_all)]>>
                  ELSE <<>>,
        blocks |-> [i \in DOMAIN sorted |->
                      LET data == dd.info[sorted[i]]
                      IN [character |-> sorted[i],
                          total_inflicted |-> data.total_damage_inflicted,
                          percent_of_total |-> Percent(data.total_damage_inflicted, denom),
                          offset_from_target |-> Offset(data.total_damage_inflicted, denom, n)]],
        perf_header |-> TRUE,
        perf |-> [i \in DOMAIN keys |->
                    LET data == dd.info[keys[i]]
                    IN [character |-> keys[i],
                        overall |-> OverallTier(8 * total_damage(data), st.q1_total, st.q3_total),
                        dealt |-> classify_performance(8 * data.total_damage_inflicted,
                                     st.q1_inflicted, st.q3_inflicted,
                                     st.upper_fence_inflicted, st.lower_fence_inflicted),
                        taken |-> classify_performance(8 * data.total_damage_received,
                                     st.q1_received, st.q3_received,
                                     st.upper_fence_received, st.lower_fence_received)]]]

\* ------------------------------------------------------- create_dashboard
\* The list "data" that becomes the DataFrame, as a set of rows.
DashboardKeys(dd, al) == IF Truthy(al) THEN FilterKeys(dd, al.names) ELSE dd.keys

InflictedRows(dd, keys) ==
    {[Character |-> c, DamageType |-> t, column |-> "Damage Inflicted",
      amount |-> dd.info[c].damage_inflicted_by_type[t]] :
        <<c, t>> \in {x \in Range(keys) \X Types :
                          x[2] \in DOMAIN dd.info[x[1]].damage_inflicted_by_type}}

ReceivedRows(dd, keys) ==
    {[Character |-> c, DamageType |-> t, column |-> "Damage Received",
      amount |-> dd.info[c].damage_received_by_type[t]] :
        <<c, t>> \in {x \in Range(keys) \X Types :
                          x[2] \in DOMAIN dd.info[x[1]].damage_received_by_type}}

\* ------------------------------------------------------------------- main
\* The missing-name check: one "name in damage_data" test per allowlist name.
RECURSIVE CheckMissing(_, _)
CheckMissing(dd, names) ==
    IF names = <<>> THEN [missing |-> <<>>, present |-> <<>>, dict |-> dd]
    ELSE LET t == DictContains(dd, Head(names))
             rest == CheckMissing(t.dict, Tail(names))
         IN [missing |-> IF t.found THEN rest.missing ELSE <<Head(names)>> \o rest.missing,
             present |-> IF t.found THEN <<Head(names)>> \o rest.present ELSE rest.present,
             dict |-> rest.dict]

KeepMissing(names, found) == names

\* allowlist = [name for name in allowlist if name in damage_data]
KeepPresent(names, found) == found

\* The loop of the diagnostic line over the allowlist.
RECURSIVE PlayerDamages(_, _)
PlayerDamages(dd, names) ==
    IF names = <<>> THEN [players |-> <<>>, total |-> 0, dict |-> dd]
    ELSE LET t == DictContains(dd, Head(names))
             d1 == IF t.found THEN GetItem(t.dict, Head(names)) ELSE t.dict
             player_damage == IF t.found
                              THEN d1.info[Head(names)].total_damage_inflicted ELSE 0
             rest == PlayerDamages(d1, Tail(names))
         IN [players |-> <<[player |-> Head(names), damage |-> player_damage]>> \o rest.players,
             total |-> player_damage + rest.total,
             dict |-> rest.dict]

NoDebug == [kind |-> "none", players |-> <<>>, total |-> 0]

TotalLines(files) == SumSeq([i \in DOMAIN files |-> Len(files[i].lines)])

NameLists == UNION {[1..n -> Names] : n \in 0..MaxAllow}

FileNamesOf(files) == [i \in DOMAIN files |-> files[i].name]

AnyDuplicate(file_names) == Len(file_names) # Len(file_names)

\* len(file_names) != len(set(file_names))
HasDuplicates(file_names) == Len(file_names) # Cardinality(Range(file_names))

Init ==
    /\ pc = "upload"
    /\ uploaded_files = <<>>
    /\ player_names = <<>>
    /\ use_allowlist = TRUE
    /\ damage_data = EmptyData
    /\ fi = 1
    /\ li = 1
    /\ allowlist = NoneList
    /\ warnings = {}
    /\ output = NoOutput
    /\ df = {}
    /\ debug_message = NoDebug
    /\ exception = ""
    /\ reordered = <<>>
    /\ damage_data2 = EmptyData

\* The user adds a file to the uploader.
UploadFile ==
    /\ pc = "upload"
    /\ Len(uploaded_files) < MaxFiles
    /\ \E name \in FileNames :
          uploaded_files' = Append(uploaded_files, [name |-> name, lines |-> <<>>])
    /\ UNCHANGED <<pc, player_names, use_allowlist, damage_data, fi, li, allowlist,
                   warnings, output, df, debug_message, exception, reordered, damage_data2>>

\* The file added last has one more line.
UploadLine ==
    /\ pc = "upload"
    /\ uploaded_files # <<>>
    /\ TotalLines(uploaded_files) < MaxLines
    /\ \E line \in Lines :
          uploaded_files' = [uploaded_files EXCEPT ![Len(uploaded_files)].lines = Append(@, line)]
    /\ UNCHANGED <<pc, player_names, use_allowlist, damage_data, fi, li, allowlist,
                   warnings, output, df, debug_message, exception, reordered, damage_data2>>

\* main up to the call of process_damage_data: the widgets are read, nothing
\* else happens without files, the duplicate check is made with files.
MainStart ==
    /\ pc = "upload"
    /\ \E names \in NameLists, use \in BOOLEAN :
          /\ player_names' = names
          /\ use_allowlist' = use
    /\ IF uploaded_files = <<>>
       THEN /\ pc' = "done"
            /\ warnings' = warnings
       ELSE /\ pc' = "process"
            /\ warnings' = IF HasDuplicates(FileNamesOf(uploaded_files))
                           THEN warnings \cup {"duplicate"} ELSE warnings
    /\ UNCHANGED <<uploaded_files, damage_data, fi, li, allowlist, output, df,
                   debug_message, exception, reordered, damage_data2>>

\* One iteration of the inner loop of process_damage_data.
ProcessNextLine ==
    /\ pc = "process"
    /\ fi <= Len(uploaded_files)
    /\ li <= Len(uploaded_files[fi].lines)
    /\ damage_data' = ProcessLine(damage_data, uploaded_files[fi].lines[li])
    /\ li' = li + 1
    /\ UNCHANGED <<pc, uploaded_files, player_names, use_allowlist, fi, allowlist,
                   warnings, output, df, debug_message, exception, reordered, damage_data2>>

\* The inner loop is exhausted: the outer loop takes the next file.
ProcessNextFile ==
    /\ pc = "process"
    /\ fi <= Len(uploaded_files)
    /\ li > Len(uploaded_files[fi].lines)
    /\ fi' = fi + 1
    /\ li' = 1
    /\ UNCHANGED <<pc, uploaded_files, player_names, use_allowlist, damage_data, allowlist,
                   warnings, output, df, debug_message, exception, reordered, damage_data2>>

\* return damage_info
ProcessReturn ==
    /\ pc = "process"
    /\ fi > Len(uploaded_files)
    /\ pc' = "check"
    /\ UNCHANGED <<uploaded_files, player_names, use_allowlist, damage_data, fi, li,
                   allowlist, warnings, output, df, debug_message, exception,
                   reordered, damage_data2>>

\* The allowlist is built from the text input and checked against the data.
AllowlistCheck ==
    /\ pc = "check"
    /\ LET al == IF player_names # <<>> THEN SomeList(player_names) ELSE NoneList
           chk == CheckMissing(damage_data, al.names)
       IN IF use_allowlist /\ Truthy(al)
          THEN /\ damage_data' = chk.dict
               /\ IF chk.missing # <<>>
                  THEN /\ warnings' = warnings \cup {"missing"}
                       /\ allowlist' = SomeList(KeepPresent(al.names, chk.present))
                  ELSE /\ warnings' = warnings
                       /\ allowlist' = al
          ELSE /\ damage_data' = damage_data
               /\ warnings' = warnings
               /\ allowlist' = al
    /\ pc' = "format"
    /\ UNCHANGED <<uploaded_files, player_names, use_allowlist, fi, li, output, df,
                   debug_message, exception, reordered, damage_data2>>

\* format_damage_output returns and the report is shown.  On an empty
\* population np.percentile returns NaN in the builds where it does not raise.
Format ==
    /\ pc = "format"
    /\ output' = format_damage_output(damage_data, use_allowlist, allowlist)
    /\ pc' = "dashboard"
    /\ UNCHANGED <<uploaded_files, player_names, use_allowlist, damage_data, fi, li,
                   allowlist, warnings, df, debug_message, exception, reordered, damage_data2>>

\* np.percentile of an empty list raises in the other builds: no report.
FormatRaise ==
    /\ pc = "format"
    /\ filtered_damage_data(damage_data, use_allowlist, allowlist) = <<>>
    /\ exception' = "IndexError"
    /\ pc' = "error"
    /\ UNCHANGED <<uploaded_files, player_names, use_allowlist, damage_data, fi, li,
                   allowlist, warnings, output, df, debug_message, reordered, damage_data2>>

\* create_dashboard: selecting a column no row carries raises KeyError.
Dashboard ==
    /\ pc = "dashboard"
    /\ LET keys == DashboardKeys(damage_data, IF use_allowlist THEN allowlist ELSE NoneList)
           inflicted == InflictedRows(damage_data, keys)
           received == ReceivedRows(damage_data, keys)
       IN /\ df' = inflicted \cup received
          /\ IF inflicted = {} \/ received = {}
             THEN /\ exception' = "KeyError"
                  /\ pc' = "error"
             ELSE /\ exception' = exception
                  /\ pc' = "debug"
    /\ UNCHANGED <<uploaded_files, player_names, use_allowlist, damage_data, fi, li,
                   allowlist, warnings, output, debug_message, reordered, damage_data2>>

\* The diagnostic line.
Debug ==
    /\ pc = "debug"
    /\ IF use_allowlist /\ Truthy(allowlist)
       THEN LET r == PlayerDamages(damage_data, allowlist.names)
            IN /\ debug_message' = [kind |-> "players", players |-> r.players, total |-> r.total]
               /\ damage_data' = r.dict
       ELSE /\ debug_message' = [kind |-> "total", players |-> <<>>,
                                 total |-> TotalInflicted(damage_data, damage_data.keys)]
            /\ damage_data' = damage_data
    /\ pc' = "done"
    /\ UNCHANGED <<uploaded_files, player_names, use_allowlist, fi, li, allowlist,
                   warnings, output, df, exception, reordered, damage_data2>>

Next ==
    \/ UploadFile
    \/ UploadLine
    \/ MainStart
    \/ ProcessNextLine
    \/ ProcessNextFile
    \/ ProcessReturn
    \/ AllowlistCheck
    \/ Format
    \/ FormatRaise
    \/ Dashboard
    \/ Debug

Spec == Init /\ [][Next]_vars

\* ------------------------------------------- two orderings of one input
SwapAt(s, i) ==
    [j \in DOMAIN s |-> IF j = i THEN s[i + 1] ELSE IF j = i + 1 THEN s[i] ELSE s[j]]

\* The reordering starts as the uploaded input.
PermStart ==
    /\ pc = "upload"
    /\ reordered' = uploaded_files
    /\ pc' = "perm"
    /\ UNCHANGED <<uploaded_files, player_names, use_allowlist, damage_data, fi, li,
                   allowlist, warnings, output, df, debug_message, exception, damage_data2>>

\* Two neighbouring files change places.
PermSwapFiles ==
    /\ pc = "perm"
    /\ \E i \in 1..(Len(reordered) - 1) : reordered' = SwapAt(reordered, i)
    /\ UNCHANGED <<pc, uploaded_files, player_names, use_allowlist, damage_data, fi, li,
                   allowlist, warnings, output, df, debug_message, exception, damage_data2>>

\* Two neighbouring lines of a file change places.
PermSwapLines ==
    /\ pc = "perm"
    /\ \E f \in DOMAIN reordered :
          \E i \in 1..(Len(reordered[f].lines) - 1) :
              reordered' = [reordered EXCEPT ![f].lines = SwapAt(@, i)]
    /\ UNCHANGED <<pc, uploaded_files, player_names, use_allowlist, damage_data, fi, li,
                   allowlist, warnings, output, df, debug_message, exception, damage_data2>>

\* The last line of a file becomes the first line of the next file.
PermMoveLine ==
    /\ pc = "perm"
    /\ \E f \in 1..(Len(reordered) - 1) :
          /\ reordered[f].lines # <<>>
          /\ LET ls == reordered[f].lines
                 last == ls[Len(ls)]
             IN reordered' = [reordered EXCEPT
                                 ![f].lines = SubSeq(ls, 1, Len(ls) - 1),
                                 ![f + 1].lines = <<last>> \o @]
    /\ UNCHANGED <<pc, uploaded_files, player_names, use_allowlist, damage_data, fi, li,
                   allowlist, warnings, output, df, debug_message, exception, damage_data2>>

\* process_damage_data is applied to the input and to its reordering.
PermProcess ==
    /\ pc = "perm"
    /\ damage_data' = process_damage_data(uploaded_files)
    /\ damage_data2' = process_damage_data(reordered)
    /\ pc' = "permdone"
    /\ UNCHANGED <<uploaded_files, player_names, use_allowlist, fi, li, allowlist,
                   warnings, output, df, debug_message, exception, reordered>>

NextPerm ==
    \/ UploadFile
    \/ UploadLine
    \/ PermStart
    \/ PermSwapFiles
    \/ PermSwapLines
    \/ PermMoveLine
    \/ PermProcess

SpecPerm == Init /\ [][NextPerm]_vars

\* ============================================================= properties
RECURSIVE Flatten(_)
Flatten(files) == IF files = <<>> THEN <<>> ELSE Head(files).lines \o Flatten(Tail(files))

MatchedLines(files) == LET IsMatch(l) == l.match IN SelectSeq(Flatten(files), IsMatch)

Pos(s, x) == CHOOSE i \in DOMAIN s : s[i] = x

AfterProcess == pc \in {"check", "format", "dashboard", "debug", "done", "error"}

AfterCheck == pc \in {"format", "dashboard", "debug", "done", "error"}

\* C1 (conservation): in every state, every ledger has total_damage_inflicted
\* equal to the sum of its damage_inflicted_by_type values and
\* total_damage_received equal to the sum of its damage_received_by_type values.
C1_Conservation ==
    \A c \in DOMAIN damage_data.info :
        /\ damage_data.info[c].total_damage_inflicted
               = SumDict(damage_data.info[c].damage_inflicted_by_type)
        /\ damage_data.info[c].total_damage_received
               = SumDict(damage_data.info[c].damage_received_by_type)

\* A ledger, part-way through the aggregation, that has inflicted damage of
\* two types and has also received damage.
C1_Witness ==
    /\ pc = "process"
    /\ \E c \in DOMAIN damage_data.info :
          /\ Cardinality(DOMAIN damage_data.info[c].damage_inflicted_by_type) = 2
          /\ damage_data.info[c].total_damage_inflicted >= 1
          /\ damage_data.info[c].total_damage_received >= 1

\* C2 (commutativity): process_damage_data applied to an input and to any
\* reordering of its files and lines yields the same character names and, per
\* character, the same totals and the same by-type values.
C2_Commutativity ==
    pc = "permdone" =>
        /\ Range(damage_data.keys) = Range(damage_data2.keys)
        /\ damage_data.info = damage_data2.info

\* Two orderings that create the ledgers in a different order and hold events
\* of different amounts.
C2_Witness ==
    /\ pc = "permdone"
    /\ damage_data.keys # damage_data2.keys
    /\ \E c \in DOMAIN damage_data.info : damage_data.info[c].total_damage_inflicted >= 1
    /\ \E i, j \in DOMAIN MatchedLines(uploaded_files) :
          MatchedLines(uploaded_files)[i].damage # MatchedLines(uploaded_files)[j].damage

\* C3 (empty input), as claimed: with no file, or with files none of whose
\* lines match, main ends without an exception, the ledger set is empty and the
\* report states a total of 0 with no per-character block and no performance
\* section.
C3_EmptyInputReport ==
    (pc \in {"done", "error"} /\ MatchedLines(uploaded_files) = <<>>) =>
        /\ exception = ""
        /\ damage_data.keys = <<>>
        /\ output.produced
        /\ output.total_all = 0
        /\ output.blocks = <<>>
        /\ ~output.perf_header
        /\ output.perf = <<>>

\* The target share "100 / n, 0 if n is 0" as the report prints it (two
\* decimals), stated without the program's rounding routine.
IsTargetOf(t, n) ==
    IF n = 0 THEN t = 0
    ELSE /\ 2 * (n * t - 10000) <= n
         /\ 2 * (10000 - n * t) <= n

\* C4 (target share), as claimed: the target in the header is 100 / N with N the
\* allowlist size whenever filtering is selected, the ledger count otherwise,
\* and 0 when N is 0.
C4_TargetShareAsClaimed ==
    output.produced =>
        IsTargetOf(output.target,
                   IF use_allowlist THEN Len(allowlist.names)
                   ELSE Cardinality(DOMAIN damage_data.info))

\* C4 (target share), amended: N is the allowlist size when filtering is
\* selected and the effective allowlist is not empty, and the ledger count
\* otherwise; the target is 0 when N is 0.
C4_TargetShare ==
    output.produced =>
        IsTargetOf(output.target,
                   IF use_allowlist /\ allowlist.names # <<>> THEN Len(allowlist.names)
                   ELSE Cardinality(DOMAIN damage_data.info))

\* Filtering selected, every supplied name dropped as missing, and a report
\* whose target is the share of the full ledger count.
C4_Witness ==
    /\ output.produced
    /\ use_allowlist
    /\ "missing" \in warnings
    /\ allowlist.names = <<>>
    /\ Len(damage_data.keys) = 2
    /\ output.target = 5000

PopulationKeys == filtered_damage_data(damage_data, use_allowlist, allowlist)

\* C5 (classification boundary): in every report, a character whose inflicted
\* (received) value equals Q3 or equals Q1 of the population's inflicted
\* (received) values is classified "Good" on that axis, and IQR >= 0.
C5_ClassificationBoundary ==
    (output.produced /\ PopulationKeys # <<>>) =>
        LET st == Stats(damage_data, PopulationKeys)
        IN /\ st.iqr_inflicted >= 0
           /\ st.iqr_received >= 0
           /\ st.upper_fence_inflicted = st.q3_inflicted + (3 * st.iqr_inflicted) \div 2
           /\ st.lower_fence_inflicted = st.q1_inflicted - (3 * st.iqr_inflicted) \div 2
           /\ \A i \in DOMAIN output.perf :
                 LET data == damage_data.info[output.perf[i].character]
                 IN /\ (8 * data.total_damage_inflicted \in {st.q1_inflicted, st.q3_inflicted})
                          => output.perf[i].dealt = "Good"
                    /\ (8 * data.total_damage_received \in {st.q1_received, st.q3_received})
                          => output.perf[i].taken = "Good"

\* A population with IQR > 0 on the inflicted axis in which one character sits
\* exactly on Q3 and another exactly on Q1 of some axis.
C5_Witness ==
    /\ output.produced
    /\ Len(PopulationKeys) = 3
    /\ LET st == Stats(damage_data, PopulationKeys)
       IN /\ st.iqr_inflicted > 0
          /\ \E c \in Range(PopulationKeys) :
                8 * damage_data.info[c].total_damage_inflicted = st.q3_inflicted
          /\ st.iqr_received > 0
          /\ \E c \in Range(PopulationKeys) :
                8 * damage_data.info[c].total_damage_received = st.q1_received

\* C6 (N = 1): when the population under consideration is one character, every
\* quartile of the three value sets is that character's value, both IQRs are 0,
\* the four fences equal the value, and the character is "Good" on both axes
\* and overall.
C6_SinglePopulation ==
    (output.produced /\ Len(PopulationKeys) = 1) =>
        LET st == Stats(damage_data, PopulationKeys)
            data == damage_data.info[PopulationKeys[1]]
        IN /\ st.q1_total = 8 * total_damage(data)
           /\ st.median_total = 8 * total_damage(data)
           /\ st.q3_total = 8 * total_damage(data)
           /\ st.q1_inflicted = 8 * data.total_damage_inflicted
           /\ st.q3_inflicted = 8 * data.total_damage_inflicted
           /\ st.q1_received = 8 * data.total_damage_received
           /\ st.q3_received = 8 * data.total_damage_received
           /\ st.iqr_inflicted = 0
           /\ st.iqr_received = 0
           /\ st.upper_fence_inflicted = 8 * data.total_damage_inflicted
           /\ st.lower_fence_inflicted = 8 * data.total_damage_inflicted
           /\ st.upper_fence_received = 8 * data.total_damage_received
           /\ st.lower_fence_received = 8 * data.total_damage_received
           /\ output.perf = <<[character |-> PopulationKeys[1], overall |-> "Good",
                               dealt |-> "Good", taken |-> "Good"]>>

\* A report on one allowlisted character, with damage on both sides, out of a
\* larger ledger set.
C6_Witness ==
    /\ output.produced
    /\ Len(PopulationKeys) = 1
    /\ Len(damage_data.keys) >= 2
    /\ damage_data.info[PopulationKeys[1]].total_damage_inflicted >= 1
    /\ damage_data.info[PopulationKeys[1]].total_damage_received >= 1

\* C7 (allowlist frame): the missing-name check, format_damage_output,
\* create_dashboard and the diagnostic line leave the ledger set as it is: no
\* key added or removed, no counter changed.
C7_AllowlistFrame ==
    [][(pc \in {"check", "format", "dashboard", "debug"}) => (damage_data' = damage_data)]_vars

\* A run that warned about a missing name and went on to the diagnostic line
\* of the remaining allowlist.
C7_Witness ==
    /\ pc = "done"
    /\ "missing" \in warnings
    /\ debug_message.kind = "players"
    /\ Len(damage_data.keys) < Cardinality(Range(player_names) \cup Range(damage_data.keys))

PresentNames == LET Has(n) == n \in DOMAIN damage_data.info IN SelectSeq(player_names, Has)

MissingWarningRight ==
    /\ ("missing" \in warnings) <=> (\E i \in DOMAIN player_names :
                                        player_names[i] \notin DOMAIN damage_data.info)
    /\ ~allowlist.isNone
    /\ allowlist.names = PresentNames

RECURSIVE SumWhere(_, _, _, _)
SumWhere(lines, side, c, types) ==
    IF lines = <<>> THEN 0
    ELSE (IF Head(lines)[side] = c /\ Head(lines).type \in types
          THEN Head(lines).damage ELSE 0) + SumWhere(Tail(lines), side, c, types)

TypesOf(lines, side, c) ==
    {lines[i].type : i \in {j \in DOMAIN lines : lines[j][side] = c}}

\* The aggregation of the events of every input file.
IsAggregationOf(dd, lines) ==
    /\ DOMAIN dd.info = {lines[i].attacker : i \in DOMAIN lines}
                            \cup {lines[i].defender : i \in DOMAIN lines}
    /\ Range(dd.keys) = DOMAIN dd.info
    /\ \A c \in DOMAIN dd.info :
          /\ dd.info[c].total_damage_inflicted = SumWhere(lines, "attacker", c, Types)
          /\ dd.info[c].total_damage_received = SumWhere(lines, "defender", c, Types)
          /\ DOMAIN dd.info[c].damage_inflicted_by_type = TypesOf(lines, "attacker", c)
          /\ DOMAIN dd.info[c].damage_received_by_type = TypesOf(lines, "defender", c)
          /\ \A t \in DOMAIN dd.info[c].damage_inflicted_by_type :
                dd.info[c].damage_inflicted_by_type[t] = SumWhere(lines, "attacker", c, {t})
          /\ \A t \in DOMAIN dd.info[c].damage_received_by_type :
                dd.info[c].damage_received_by_type[t] = SumWhere(lines, "defender", c, {t})

\* C9 (duplicate file names): with at least one input file, the duplicate
\* warning is raised exactly when two files share a name, and the ledger set
\* is the aggregation of the events of every file.
C9_DuplicateFiles ==
    (uploaded_files # <<>> /\ AfterProcess) =>
        /\ ("duplicate" \in warnings) <=>
               (\E i, j \in DOMAIN uploaded_files :
                    i # j /\ uploaded_files[i].name = uploaded_files[j].name)
        /\ IsAggregationOf(damage_data, MatchedLines(uploaded_files))

\* Two files of the same name, each with an event, both counted.
C9_Witness ==
    /\ AfterProcess
    /\ Len(uploaded_files) = 2
    /\ uploaded_files[1].name = uploaded_files[2].name
    /\ "duplicate" \in warnings
    /\ \A i \in 1..2 : Len(uploaded_files[i].lines) = 1 /\ uploaded_files[i].lines[1].match
    /\ \E c \in DOMAIN damage_data.info : damage_data.info[c].total_damage_inflicted = 2

InScope(c) ==
    /\ c \in DOMAIN damage_data.info
    /\ (use_allowlist /\ allowlist.names # <<>>) => c \in Range(allowlist.names)

\* C10 (report ordering): the per-character blocks are exactly the characters
\* in scope, each once, in non-increasing order of total inflicted, and two
\* characters of equal total inflicted stand in the order in which their
\* ledgers were created.
C10_ReportOrdering ==
    output.produced =>
        /\ {output.blocks[i].character : i \in DOMAIN output.blocks}
               = {c \in Names : InScope(c)}
        /\ Len(output.blocks) = Cardinality({c \in Names : InScope(c)})
        /\ \A i \in DOMAIN output.blocks :
              output.blocks[i].total_inflicted
                  = damage_data.info[output.blocks[i].character].total_damage_inflicted
        /\ \A i, j \in DOMAIN output.blocks :
              i < j =>
                  /\ output.blocks[i].total_inflicted >= output.blocks[j].total_inflicted
                  /\ output.blocks[i].total_inflicted = output.blocks[j].total_inflicted
                        => Pos(damage_data.keys, output.blocks[i].character)
                               < Pos(damage_data.keys, output.blocks[j].character)

\* Three blocks: the character whose ledger was created last leads, the two
\* created before it are tied and keep their order.
C10_Witness ==
    /\ output.produced
    /\ Len(output.blocks) = 3
    /\ output.blocks[1].character = damage_data.keys[3]
    /\ output.blocks[2].total_inflicted = output.blocks[3].total_inflicted
    /\ output.blocks[1].total_inflicted > output.blocks[2].total_inflicted

====
